---- MODULE Spec2Model ----
(***************************************************************************)
(* Request pipeline, unit-of-work coordinator, command/query repositories  *)
(* and in-memory event bus of the oddly-infrastructures Python templates   *)
(* (infrastructures/ddd/python and infrastructures/rest-ddd/python).       *)
(*                                                                         *)
(* One request is processed at a time.  A request descends through the     *)
(* stages of its pipeline (each stage is a function from (request, next)   *)
(* to response), reaches the terminal handler, and unwinds through the     *)
(* same stages.  `trace` records, in program order, the calls the stages   *)
(* and the handler make while the current request is processed.            *)
(*                                                                         *)
(* The clock does not advance while the requests are processed: every     *)
(* datetime.utcnow() yields the same instant.  Fields are copied one by    *)
(* one as the code copies them.                                            *)
(***************************************************************************)
EXTENDS Integers, Sequences, FiniteSets, TLC

VARIABLES
    store,        \* ExampleCommandRepository._in_memory_store : id -> write entity
    readStore,    \* ExampleQueryRepository._in_memory_store (insertion ordered)
    subscribers,  \* InMemoryEventBus._subscribers : topic -> sequence of handlers
    received,     \* events the subscriber handlers have been invoked with
    uowState,     \* coordinator state: "IDLE" or "ACTIVE"
    uowLast,      \* how the last transaction ended: "NONE", "COMMITTED", "ROLLED_BACK"
    txBase,       \* command store as it was when the open transaction began
    txWrites,     \* repository writes made since the last begin
    req,          \* the request being processed
    pipeline,     \* the stages the request passes through, outermost first
    depth,        \* number of stages entered and not yet left
    phase,        \* "idle", "down" (towards the handler), "up" (unwinding), "done"
    outcome,      \* what the stage below handed up: a response or an exception
    handed,       \* what the terminal handler returned or raised
    trace,        \* calls made while processing the current request
    conc,         \* requests in flight at the same time: id -> position and data
    call          \* the last direct call of a function: its name, arguments, result

vars == <<store, readStore, subscribers, received, uowState, uowLast, txBase,
          txWrites, req, pipeline, depth, phase, outcome, handed, trace, conc,
          call>>

dataVars == <<store, readStore, subscribers, received>>
uowVars  == <<uowState, uowLast, txBase, txWrites>>
reqVars  == <<req, pipeline, depth, phase, outcome, handed, trace>>

---------------------------------------------------------------------------
(* Bounds *)

MaxSubs     == 1      \* handler registrations on the event bus
MaxTxWrites == 2      \* cap of the write counter of one transaction
MaxHandlers == 3      \* handler registrations when the bus is driven directly

---------------------------------------------------------------------------
(* Value domains *)

Ids      == {"e1", "e2"}
Users    == {"user-123", "user-456"}
Names    == {"Widget", "Gadget"}
Topics   == {"example.created", "example.updated", "example.deleted"}
Handlers == {"h1", "h2"}

\* BaseController.get_user_id / get_correlation_id placeholders
CurrentUser        == "user-123"
CurrentCorrelation == "correlation-123"

\* status_code of an object that has no status_code attribute
NoStatus == -1

\* len(name) for the names used here; LongName stands for a 101 character name
LongName == "L101"
NameLen(n) ==
    CASE n = ""        -> 0
      [] n = "Widget"  -> 6
      [] n = "Gadget"  -> 6
      [] n = LongName  -> 101
      [] OTHER         -> 1

\* `not s or not s.strip()`
IsBlank(s) == s = ""

ReqNames == Names \cup {"", LongName}

\* datetime.utcnow() while the requests are processed, and an earlier instant
utcnow == "t1"
Times  == {"t0", utcnow}

Entities ==
    [id : Ids, name : Names, description : {"desc"}, owner_id : Users,
     is_active : BOOLEAN, created_at : {utcnow}, updated_at : {utcnow}, version : {0}]

EmptyStore == [x \in {} |-> 0]

Put(s, id, e) == [x \in (DOMAIN s) \cup {id} |-> IF x = id THEN e ELSE s[x]]
Remove(s, id) == [x \in (DOMAIN s) \ {id} |-> s[x]]

\* contents the externally projected read store may have
ReadStores == { <<>>,
                <<[id |-> "e2", name |-> "Gadget"], [id |-> "e1", name |-> "Widget"]>> }

---------------------------------------------------------------------------
(* Outcomes handed from one stage to the stage above it *)

\* details of an error that has none (None, or the empty dictionary)
NoDetails == "none"

NoOutcome == [kind |-> "none", status |-> 0, exc |-> "", code |-> "", body |-> "",
              message |-> "", details |-> NoDetails]

Response(status, body) ==
    [kind |-> "response", status |-> status, exc |-> "", code |-> "", body |-> body,
     message |-> "", details |-> NoDetails]

\* str(ex): a service exception carries the message template of its code,
\* the text of any other exception is told apart by the exception's type
ExcText(exc, code) ==
    CASE exc = "ExampleServiceException" /\ code = "not_found" -> "Example '{id}' not found"
      [] exc = "ExampleServiceException" /\ code = "unauthorized" ->
            "You are not authorized to access example '{id}'"
      [] OTHER -> exc

\* ex.details: the service raises its exceptions with {"id": p_id}
ExcDetails(exc) == IF exc = "ExampleServiceException" THEN "id" ELSE NoDetails

Raised(exc, code) ==
    [kind |-> "exception", status |-> 0, exc |-> exc, code |-> code, body |-> "",
     message |-> ExcText(exc, code), details |-> ExcDetails(exc)]

\* ErrorResponseDto is a dataclass without a status_code attribute
ErrorDto(code, message, details) ==
    [kind |-> "response", status |-> NoStatus, exc |-> "", code |-> code,
     body |-> "ErrorResponseDto", message |-> message, details |-> details]

---------------------------------------------------------------------------
(* Unit-of-work coordinator.  Only the IUnitOfWork interface is in the     *)
(* repository; the state machine is the one of the specification:          *)
(* IDLE -> ACTIVE -> (COMMITTED | ROLLED_BACK) -> IDLE, begin fails when   *)
(* already ACTIVE, commit and rollback act on the ACTIVE transaction.      *)

CoordStep(st, op) ==
    CASE op = "begin" ->
            IF st = "IDLE" THEN [state |-> "ACTIVE", ok |-> TRUE, ended |-> "NONE"]
                           ELSE [state |-> st, ok |-> FALSE, ended |-> "NONE"]
      [] op = "commit" ->
            IF st = "ACTIVE" THEN [state |-> "IDLE", ok |-> TRUE, ended |-> "COMMITTED"]
                             ELSE [state |-> st, ok |-> FALSE, ended |-> "NONE"]
      [] op = "rollback" ->
            IF st = "ACTIVE" THEN [state |-> "IDLE", ok |-> TRUE, ended |-> "ROLLED_BACK"]
                             ELSE [state |-> st, ok |-> FALSE, ended |-> "NONE"]
      [] OTHER -> \* save_changes: valid only in ACTIVE, does not end the transaction
            [state |-> st, ok |-> (st = "ACTIVE"), ended |-> "NONE"]

---------------------------------------------------------------------------
(* ExampleModel (business model object) *)

\* ExampleModel.validate, TRUE when no ValueError is raised
ModelValid(m) ==
    /\ m.id # ""
    /\ ~IsBlank(m.name)
    /\ NameLen(m.name) <= 100
    /\ ~IsBlank(m.owner_id)

\* variant: every user passes the ownership validation
OwnedBy_Anyone(m, user) == TRUE

\* ExampleModel.validate_ownership, TRUE when no PermissionError is raised
OwnedBy(m, user) == m.owner_id = user

---------------------------------------------------------------------------
(* ExampleMapper *)

\* BMO -> write entity; version is not copied and keeps the constructor's 0
to_write_entity(m) ==
    [id |-> m.id, name |-> m.name, description |-> m.description,
     owner_id |-> m.owner_id, is_active |-> m.is_active,
     created_at |-> m.created_at, updated_at |-> m.updated_at, version |-> 0]

\* variant: the model gets the timestamps of its construction
to_model_from_write_entity_FreshTimes(e) ==
    [id |-> e.id, name |-> e.name, description |-> e.description,
     owner_id |-> e.owner_id, is_active |-> e.is_active,
     created_at |-> utcnow, updated_at |-> utcnow]

\* write entity -> BMO through ExampleModel.hydrate (no validation)
to_model_from_write_entity(e) ==
    [id |-> e.id, name |-> e.name, description |-> e.description,
     owner_id |-> e.owner_id, is_active |-> e.is_active,
     created_at |-> e.created_at, updated_at |-> e.updated_at]

---------------------------------------------------------------------------
(* ExampleCommandRepository: every operation acts on the dictionary at     *)
(* once; the repository holds no reference to the coordinator.             *)

save_async(s, m) ==
    [store |-> Put(s, m.id, to_write_entity(m)), ok |-> TRUE]

\* variant: an entity that is not stored is inserted
update_async_Upsert(s, m) ==
    [store |-> Put(s, m.id, to_write_entity(m)), ok |-> TRUE]

update_async(s, m) ==
    IF m.id \in DOMAIN s
    THEN [store |-> Put(s, m.id, to_write_entity(m)), ok |-> TRUE]
    ELSE [store |-> s, ok |-> FALSE]            \* ValueError

delete_async(s, id) ==
    IF id \in DOMAIN s
    THEN [store |-> Remove(s, id), ok |-> TRUE]
    ELSE [store |-> s, ok |-> FALSE]            \* ValueError

exists_async(s, id) == id \in DOMAIN s

NoModel == [id |-> "", name |-> "", description |-> "", owner_id |-> "",
            is_active |-> FALSE, created_at |-> "", updated_at |-> ""]

\* found = FALSE stands for the ValueError raised when the id is not stored
find_by_id_for_command_async(s, id) ==
    IF id \in DOMAIN s
    THEN [found |-> TRUE, model |-> to_model_from_write_entity(s[id])]
    ELSE [found |-> FALSE, model |-> NoModel]

---------------------------------------------------------------------------
(* ExampleQueryRepository *)

\* dict.get: the entity, or None (found = FALSE)
find_by_id_async(rs, id) ==
    IF \E i \in 1..Len(rs) : rs[i].id = id
    THEN [found |-> TRUE, entity |-> rs[CHOOSE i \in 1..Len(rs) : rs[i].id = id]]
    ELSE [found |-> FALSE, entity |-> [id |-> "", name |-> ""]]

\* an index of a slice of a list of length n as Python resolves it: a
\* negative index counts from the end, and the index is then clamped
SliceIndex(x, n) ==
    LET y == IF x < 0 THEN x + n ELSE x
    IN  IF y < 0 THEN 0 ELSE IF y > n THEN n ELSE y

\* q[a:b]
PySlice(q, a, b) ==
    LET lo == SliceIndex(a, Len(q))
        hi == SliceIndex(b, Len(q))
    IN  IF lo < hi THEN [i \in 1..(hi - lo) |-> q[lo + i]] ELSE <<>>

\* all_entities[p_skip:p_skip + p_take]
list_by_filter_async(rs, skip, take) == PySlice(rs, skip, skip + take)

---------------------------------------------------------------------------
(* InMemoryEventBus *)

\* variant: the event reaches no handler
publish_async_Dropping(subs, event, topic) == <<>>

\* variant: the handlers of every topic are called
publish_async_Broadcast(subs, event, topic) ==
    LET all == subs["example.created"] \o subs["example.updated"]
                 \o subs["example.deleted"]
    IN  [i \in 1..Len(all) |-> [handler |-> all[i], topic |-> topic, event |-> event]]

\* handlers = self._subscribers.get(p_topic, []); every handler is called
\* with the event inside publish_async itself
publish_async(subs, event, topic) ==
    [i \in 1..Len(subs[topic]) |->
        [handler |-> subs[topic][i], topic |-> topic, event |-> event]]

\* handlers whose coroutine raises when it runs
FailingHandlers == {"h2"}

HandlerResult(h) == IF h \in FailingHandlers THEN "error" ELSE "ok"

\* variant: the first exception of a task is raised to the caller
gather_Propagating(results, return_exceptions) ==
    [raised |-> \E i \in 1..Len(results) : results[i] = "error"]

\* asyncio.gather(*tasks, return_exceptions=...): every task runs to its
\* end; with return_exceptions the exceptions are results, not raised
gather(results, return_exceptions) ==
    [raised |-> ~return_exceptions /\ \E i \in 1..Len(results) : results[i] = "error"]

\* what `await publish_async(event, topic)` hands to its caller
publish_result(subs, topic) ==
    LET tasks == [i \in 1..Len(subs[topic]) |-> HandlerResult(subs[topic][i])]
    IN  IF Len(tasks) > 0 /\ gather(tasks, TRUE).raised
        THEN Raised("HandlerError", "")
        ELSE NoOutcome

Event(type, id, name, owner, corr) ==
    [type |-> type, example_id |-> id, name |-> name, owner_id |-> owner,
     correlation_id |-> corr]

Repeat(label, n) == [i \in 1..n |-> label]

---------------------------------------------------------------------------
(* ExampleService.  Every operation yields the command store it leaves,    *)
(* the repository and bus calls it made (in program order), the handler    *)
(* invocations of its publish call, whether it returned or raised, and the *)
(* models it handed to save_async or update_async.                         *)

Returned == NoOutcome

SvcResult(s, calls, delivered, result) ==
    [store |-> s, calls |-> calls, delivered |-> delivered, result |-> result,
     written |-> <<>>]

\* the operation handed model m to the command repository
Wrote(r, m) == [r EXCEPT !.written = <<m>>]

\* to_model_from_request builds the model through ExampleModel.create with
\* an empty owner; the owner is assigned only after create has validated
create_example_async(s, subs, newId, name, user, corr) ==
    LET created == [id |-> newId, name |-> name, description |-> "desc",
                    owner_id |-> "", is_active |-> TRUE,
                    created_at |-> utcnow, updated_at |-> utcnow]
        model   == [created EXCEPT !.owner_id = user]
        saved   == save_async(s, model)
        event   == Event("ExampleCreatedEvent", newId, model.name, user, corr)
        sent    == publish_async(subs, event, "example.created")
    IN  IF ~ModelValid(created)
        THEN SvcResult(s, <<>>, <<>>, Raised("ValueError", ""))
        ELSE Wrote(SvcResult(saved.store,
                             <<"repo.save", "bus.publish">>
                                 \o Repeat("bus.deliver", Len(sent)),
                             sent, publish_result(subs, "example.created")),
                   model)

\* variant: the fields are assigned and validate() is not called
update_details_Unvalidated(m, name, description) ==
    IF IsBlank(name)
    THEN [model |-> m, ok |-> FALSE]
    ELSE [model |-> [m EXCEPT !.name = name, !.description = description,
                              !.updated_at = utcnow],
          ok |-> TRUE]

\* ExampleModel.update_details: blank name raises before any assignment,
\* otherwise the fields are assigned and validate() runs afterwards
update_details(m, name, description) ==
    IF IsBlank(name)
    THEN [model |-> m, ok |-> FALSE]
    ELSE LET m2 == [m EXCEPT !.name = name, !.description = description,
                              !.updated_at = utcnow]
         IN  [model |-> m2, ok |-> ModelValid(m2)]

\* the calls of an operation that was resumed after `before`
ResumedAfter(before, r) == [r EXCEPT !.calls = before \o @]

\* variant: the event is published whether or not update_async raised
update_example_write_Always(s, subs, model, name) ==
    LET changed == update_details(model, name, "desc")
        written == update_async(s, changed.model)
        event   == Event("ExampleUpdatedEvent", model.id, changed.model.name, "", "")
        sent    == publish_async(subs, event, "example.updated")
    IN  Wrote(SvcResult(written.store,
                        <<"repo.update", "bus.publish">> \o Repeat("bus.deliver", Len(sent)),
                        sent, publish_result(subs, "example.updated")),
              changed.model)

\* update_example_async from model.update_details on: the part that runs
\* once find_by_id_for_command_async has returned the model
update_example_write(s, subs, model, name) ==
    LET changed == update_details(model, name, "desc")
        written == update_async(s, changed.model)
        event   == Event("ExampleUpdatedEvent", model.id, changed.model.name, "", "")
        sent    == publish_async(subs, event, "example.updated")
    IN  IF ~changed.ok
        THEN SvcResult(s, <<>>, <<>>, Raised("ValueError", ""))
        ELSE IF ~written.ok
        THEN Wrote(SvcResult(s, <<"repo.update">>, <<>>, Raised("ValueError", "")),
                   changed.model)
        ELSE Wrote(SvcResult(written.store,
                             <<"repo.update", "bus.publish">>
                                 \o Repeat("bus.deliver", Len(sent)),
                             sent, publish_result(subs, "example.updated")),
                   changed.model)

update_example_async(s, subs, id, name, user) ==
    LET found == find_by_id_for_command_async(s, id)
    IN  IF ~found.found
        THEN SvcResult(s, <<"repo.find">>, <<>>, Raised("ValueError", ""))
        ELSE IF ~OwnedBy(found.model, user)
        THEN SvcResult(s, <<"repo.find">>, <<>>,
                       Raised("ExampleServiceException", "unauthorized"))
        ELSE ResumedAfter(<<"repo.find">>, update_example_write(s, subs, found.model, name))

\* delete_example_async from delete_async on
delete_example_write(s, subs, id) ==
    LET removed == delete_async(s, id)
        event   == Event("ExampleDeletedEvent", id, "", "", "")
        sent    == publish_async(subs, event, "example.deleted")
    IN  IF ~removed.ok
        THEN SvcResult(s, <<"repo.delete">>, <<>>, Raised("ValueError", ""))
        ELSE SvcResult(removed.store,
                       <<"repo.delete", "bus.publish">>
                           \o Repeat("bus.deliver", Len(sent)),
                       sent, publish_result(subs, "example.deleted"))

delete_example_async(s, subs, id, user) ==
    LET found == find_by_id_for_command_async(s, id)
    IN  IF ~found.found
        THEN SvcResult(s, <<"repo.find">>, <<>>, Raised("ValueError", ""))
        ELSE IF ~OwnedBy(found.model, user)
        THEN SvcResult(s, <<"repo.find">>, <<>>,
                       Raised("ExampleServiceException", "unauthorized"))
        ELSE ResumedAfter(<<"repo.find">>, delete_example_write(s, subs, id))

\* activate_example_async (active = TRUE) and deactivate_example_async
set_active_example_async(s, id, user, active) ==
    LET found   == find_by_id_for_command_async(s, id)
        model   == [found.model EXCEPT !.is_active = active, !.updated_at = utcnow]
        written == update_async(s, model)
    IN  IF ~found.found
        THEN SvcResult(s, <<"repo.find">>, <<>>, Raised("ValueError", ""))
        ELSE IF ~OwnedBy(found.model, user)
        THEN SvcResult(s, <<"repo.find">>, <<>>,
                       Raised("ExampleServiceException", "unauthorized"))
        ELSE IF ~written.ok
        THEN Wrote(SvcResult(s, <<"repo.find", "repo.update">>, <<>>,
                             Raised("ValueError", "")),
                   model)
        ELSE Wrote(SvcResult(written.store, <<"repo.find", "repo.update">>, <<>>, Returned),
                   model)

\* variant: the absent value is handed on as the response
get_example_async_ReturnsNone(s, rs, id) ==
    SvcResult(s, <<"query.find">>, <<>>, Returned)

get_example_async(s, rs, id) ==
    IF find_by_id_async(rs, id).found
    THEN SvcResult(s, <<"query.find">>, <<>>, Returned)
    ELSE SvcResult(s, <<"query.find">>, <<>>,
                   Raised("ExampleServiceException", "not_found"))

\* variant: listing purges the command store
list_examples_async_Purging(s, rs, skip, take) ==
    SvcResult(EmptyStore, <<"query.list">>, <<>>, Returned)

list_examples_async(s, rs, skip, take) ==
    SvcResult(s, <<"query.list">>, <<>>, Returned)

---------------------------------------------------------------------------
(* Requests and routes (main.py) *)

Routes == {"create", "get", "list", "update", "delete", "activate", "deactivate"}

RouteMethod(route) ==
    CASE route = "create"     -> "POST"
      [] route = "get"        -> "GET"
      [] route = "list"       -> "GET"
      [] route = "update"     -> "PUT"
      [] route = "delete"     -> "DELETE"
      [] route = "activate"   -> "POST"
      [] route = "deactivate" -> "POST"

\* status_code declared by the route decorator
RouteStatus(route) ==
    CASE route = "create" -> 201
      [] route \in {"get", "list"} -> 200
      [] OTHER -> 204

Methods == {"GET", "POST", "PUT", "PATCH", "DELETE", "OPTIONS"}

\* is_public and has_access are the answers the IOwnershipVerifier of the
\* rest-ddd OwnershipMiddleware gives for the request's resource and user
NoRequest == [method |-> "", route |-> "", id |-> "", name |-> "", after |-> "",
              is_public |-> FALSE, has_access |-> TRUE]

Request(method, route, id, name, after) ==
    [method |-> method, route |-> route, id |-> id, name |-> name, after |-> after,
     is_public |-> FALSE, has_access |-> TRUE]

\* requests served by the routes registered in main.py
RouteRequests ==
    { Request(RouteMethod(rt), rt, id, n, "route") :
        rt \in {"create"}, id \in {""}, n \in ReqNames }
    \cup { Request(RouteMethod(rt), rt, id, n, "route") :
        rt \in {"update"}, id \in Ids, n \in ReqNames }
    \cup { Request(RouteMethod(rt), rt, id, n, "route") :
        rt \in {"get", "delete", "activate", "deactivate"}, id \in Ids, n \in {""} }
    \cup { Request("GET", "list", "", "", "route") }

\* what a next stage handed to a middleware may do after its service call:
\* answer with the route's status, with another status, with an object
\* that has no status_code, or raise
Afters == {"route", "s399", "s400", "s500", "nostatus", "raise"}

\* requests given to a middleware whose next stage is an arbitrary handler:
\* one that calls a service operation, or one that calls nothing ("stub")
HandlerRequests ==
    { Request("PUT", "update", id, "Gadget", a) : id \in Ids, a \in Afters }
    \cup { Request("DELETE", "delete", id, "", a) : id \in Ids, a \in Afters }
    \cup { Request(m, "stub", "", "", a) : m \in Methods, a \in Afters }

\* requests given to the rest-ddd OwnershipMiddleware: with or without a
\* resource id, for each pair of answers of the verifier
OwnershipRequests ==
    { [Request(m, "stub", id, "", a) EXCEPT !.is_public = p, !.has_access = h] :
        m \in {"GET", "PUT"}, id \in {"", "e1"}, a \in {"route", "raise"},
        p \in BOOLEAN, h \in BOOLEAN }

\* uuid4 of a new model: an id not stored yet
NewIds(s) == IF Ids \ DOMAIN s = {} THEN {"e0"} ELSE Ids \ DOMAIN s

\* CreateExampleRequest.validate / UpdateExampleRequest.validate
RequestValid(name) == ~IsBlank(name) /\ NameLen(name) <= 100

\* ExampleController method of the route (BaseController supplies the user
\* and the correlation id)
Controller(r, s, rs, subs, newId) ==
    CASE r.route = "create" ->
            IF ~RequestValid(r.name)
            THEN SvcResult(s, <<>>, <<>>, Raised("ValueError", ""))
            ELSE create_example_async(s, subs, newId, r.name, CurrentUser,
                                      CurrentCorrelation)
      [] r.route = "update" ->
            IF ~RequestValid(r.name)
            THEN SvcResult(s, <<>>, <<>>, Raised("ValueError", ""))
            ELSE update_example_async(s, subs, r.id, r.name, CurrentUser)
      [] r.route = "delete" -> delete_example_async(s, subs, r.id, CurrentUser)
      [] r.route = "activate" -> set_active_example_async(s, r.id, CurrentUser, TRUE)
      [] r.route = "deactivate" -> set_active_example_async(s, r.id, CurrentUser, FALSE)
      [] r.route = "get" -> get_example_async(s, rs, r.id)
      [] r.route = "list" -> list_examples_async(s, rs, 0, 10)
      [] OTHER -> SvcResult(s, <<>>, <<>>, Returned)

\* what the terminal handler hands up once its service call has returned
AfterOutcome(r) ==
    CASE r.after = "route"    -> Response(IF r.route \in Routes THEN RouteStatus(r.route)
                                                                  ELSE 200, "ok")
      [] r.after = "s399"     -> Response(399, "ok")
      [] r.after = "s400"     -> Response(400, "ok")
      [] r.after = "s500"     -> Response(500, "ok")
      [] r.after = "nostatus" -> Response(NoStatus, "raw")
      [] r.after = "raise_service" -> Raised("PlainServiceException", "")
      [] OTHER                -> Raised("RuntimeError", "")

---------------------------------------------------------------------------
(* Middleware.  A stage is described by what it does before it awaits the  *)
(* next stage and by what it does with the outcome the next stage hands    *)
(* up.  `calls` are the trace entries, `state` and `ended` the coordinator *)
(* state it leaves and the way a transaction ended (if one did).           *)

Before(calls, st, began, descend, out) ==
    [calls |-> calls, state |-> st, began |-> began, ended |-> "NONE",
     descend |-> descend, outcome |-> out]

After(calls, st, ended, out) ==
    [calls |-> calls, state |-> st, ended |-> ended, outcome |-> out]

\* variant: every method but GET counts as mutating
IsMutating_AllButGet(method) == method # "GET"

\* is_mutating = p_request.method in ["POST", "PUT", "PATCH", "DELETE"]
IsMutating(method) == method \in {"POST", "PUT", "PATCH", "DELETE"}

\* variant: the comparison is `<=`
UowDecision_Inclusive(status) == IF status <= 400 THEN "commit" ELSE "rollback"

\* `if response.status_code < 400: commit else: rollback`
UowDecision(status) == IF status < 400 THEN "commit" ELSE "rollback"

CallLabel(op) ==
    CASE op = "begin"  -> "uow.begin"
      [] op = "commit" -> "uow.commit"
      [] OTHER         -> "uow.rollback"

\* variant: the except clause commits instead of rolling back
UowExcept_Commits(calls, st, exc) ==
    LET c == CoordStep(st, "commit")
    IN  After(calls \o <<"uow.caught", "uow.commit">>, c.state, c.ended,
              IF c.ok THEN exc ELSE Raised("CoordinatorError", ""))

\* the `except Exception:` clause of both UnitOfWorkMiddleware variants:
\* rollback, then re-raise (an exception of rollback itself replaces it)
UowExcept(calls, st, exc) ==
    LET rb == CoordStep(st, "rollback")
    IN  After(calls \o <<"uow.caught", "uow.rollback">>, rb.state, rb.ended,
              IF rb.ok THEN exc ELSE Raised("CoordinatorError", ""))

\* variant: the next stage is awaited without a transaction being begun
ddd_uow_before_NoBegin(r, st) ==
    Before(<<"uow.enter">>, st, FALSE, TRUE, NoOutcome)

\* ddd UnitOfWorkMiddleware.__call__ up to `await p_call_next(p_request)`
ddd_uow_before(r, st) ==
    IF ~IsMutating(r.method)
    THEN Before(<<"uow.enter">>, st, FALSE, TRUE, NoOutcome)
    ELSE LET b == CoordStep(st, "begin")
         IN  IF b.ok
             THEN Before(<<"uow.enter", "uow.begin">>, b.state, TRUE, TRUE, NoOutcome)
             ELSE LET x == UowExcept(<<"uow.enter", "uow.begin">>, b.state,
                                     Raised("CoordinatorError", ""))
                  IN  [calls |-> x.calls, state |-> x.state, began |-> FALSE,
                       ended |-> x.ended, descend |-> FALSE, outcome |-> x.outcome]

\* ddd UnitOfWorkMiddleware.__call__ from the return of p_call_next on
ddd_uow_after(r, st, out) ==
    IF ~IsMutating(r.method)
    THEN After(<<>>, st, "NONE", out)
    ELSE IF out.kind = "exception"
    THEN UowExcept(<<>>, st, out)
    ELSE IF out.status = NoStatus          \* response.status_code: AttributeError
    THEN UowExcept(<<>>, st, Raised("AttributeError", ""))
    ELSE LET op == UowDecision(out.status)
             c  == CoordStep(st, op)
         IN  IF c.ok
             THEN After(<<CallLabel(op)>>, c.state, c.ended, out)
             ELSE UowExcept(<<CallLabel(op)>>, c.state, Raised("CoordinatorError", ""))

\* rest-ddd UnitOfWorkMiddleware.__call__: no test of the request method
rest_uow_before(r, st) ==
    LET b == CoordStep(st, "begin")
    IN  IF b.ok
        THEN Before(<<"uow.enter", "uow.begin">>, b.state, TRUE, TRUE, NoOutcome)
        ELSE LET x == UowExcept(<<"uow.enter", "uow.begin">>, b.state,
                                Raised("CoordinatorError", ""))
             IN  [calls |-> x.calls, state |-> x.state, began |-> FALSE,
                  ended |-> x.ended, descend |-> FALSE, outcome |-> x.outcome]

\* status_code = getattr(response, 'status_code', 200)
rest_uow_after(r, st, out) ==
    IF out.kind = "exception"
    THEN UowExcept(<<>>, st, out)
    ELSE LET status == IF out.status = NoStatus THEN 200 ELSE out.status
             op     == UowDecision(status)
             c      == CoordStep(st, op)
         IN  IF c.ok
             THEN After(<<CallLabel(op)>>, c.state, c.ended, out)
             ELSE UowExcept(<<CallLabel(op)>>, c.state, Raised("CoordinatorError", ""))

\* exception classes derived from ServiceException: ExampleServiceException
\* through TypedServiceException, which defines error_code and details; a
\* class derived from ServiceException itself has neither
ServiceExceptions == {"ExampleServiceException", "PlainServiceException"}
TypedServiceExceptions == {"ExampleServiceException"}

\* variant: the generic response carries the text of the exception
error_after_Leaking(r, st, out) ==
    IF out.kind # "exception"
    THEN After(<<>>, st, "NONE", out)
    ELSE IF out.exc \in ServiceExceptions /\ out.exc \notin TypedServiceExceptions
    THEN After(<<"error.caught">>, st, "NONE", Raised("AttributeError", ""))
    ELSE IF out.exc \in ServiceExceptions
    THEN After(<<"error.caught">>, st, "NONE", ErrorDto(out.code, out.message, out.details))
    ELSE After(<<"error.caught">>, st, "NONE",
               ErrorDto("INTERNAL_ERROR", out.message, NoDetails))

\* ErrorHandlingMiddleware.__call__: a ServiceException becomes an
\* ErrorResponseDto with the code's value, str(ex) and ex.details; any
\* other exception one with INTERNAL_ERROR, a fixed message and no
\* details; a response passes unchanged.  `ex.error_code` of a
\* ServiceException without that attribute raises AttributeError inside
\* the except clause, which no other clause catches
error_after(r, st, out) ==
    IF out.kind # "exception"
    THEN After(<<>>, st, "NONE", out)
    ELSE IF out.exc \in ServiceExceptions /\ out.exc \notin TypedServiceExceptions
    THEN After(<<"error.caught">>, st, "NONE", Raised("AttributeError", ""))
    ELSE IF out.exc \in ServiceExceptions
    THEN After(<<"error.caught">>, st, "NONE", ErrorDto(out.code, out.message, out.details))
    ELSE After(<<"error.caught">>, st, "NONE",
               ErrorDto("INTERNAL_ERROR", "An unexpected error occurred", NoDetails))

\* OwnershipMiddleware.__call__: GET is passed on at once; for the other
\* methods the verification is commented out and the request is passed on
ownership_before(r, st) ==
    IF r.method = "GET"
    THEN Before(<<"ownership.enter">>, st, FALSE, TRUE, NoOutcome)
    ELSE Before(<<"ownership.enter", "ownership.checked">>, st, FALSE, TRUE, NoOutcome)

\* ForbiddenException carries status_code 403
Forbidden == [Raised("ForbiddenException", "") EXCEPT !.status = 403]

\* variant: the answer of verify_ownership_async is not looked at
rest_ownership_before_NoVerify(r, st) ==
    Before(<<"ownership.enter">>, st, FALSE, TRUE, NoOutcome)

\* rest-ddd OwnershipMiddleware.__call__ (the two extraction hooks are
\* implemented by the subclass in use: the resource id is the request's id)
rest_ownership_before(r, st) ==
    IF r.id = ""
    THEN Before(<<"ownership.enter">>, st, FALSE, TRUE, NoOutcome)
    ELSE IF r.is_public
    THEN Before(<<"ownership.enter", "ownership.is_public">>, st, FALSE, TRUE, NoOutcome)
    ELSE IF ~r.has_access
    THEN Before(<<"ownership.enter", "ownership.is_public", "ownership.verify">>,
                st, FALSE, FALSE, Forbidden)
    ELSE Before(<<"ownership.enter", "ownership.is_public", "ownership.verify">>,
                st, FALSE, TRUE, NoOutcome)

\* CorrelationIdMiddleware.__call__: the id is computed, the request passed on
correlation_before(r, st) == Before(<<"correlation.enter">>, st, FALSE, TRUE, NoOutcome)

StageBefore(stage, r, st) ==
    CASE stage = "correlation" -> correlation_before(r, st)
      [] stage = "ownership"   -> ownership_before(r, st)
      [] stage = "uow"         -> ddd_uow_before(r, st)
      [] stage = "rest_uow"    -> rest_uow_before(r, st)
      [] stage = "rest_ownership" -> rest_ownership_before(r, st)
      [] stage = "error"       -> Before(<<"error.enter">>, st, FALSE, TRUE, NoOutcome)
      [] OTHER                 -> Before(<<"cors.enter">>, st, FALSE, TRUE, NoOutcome)

StageAfter(stage, r, st, out) ==
    CASE stage = "uow"      -> ddd_uow_after(r, st, out)
      [] stage = "rest_uow" -> rest_uow_after(r, st, out)
      [] stage = "error"    -> error_after(r, st, out)
      [] OTHER              -> After(<<>>, st, "NONE", out)

Reverse(q) == [i \in 1..Len(q) |-> q[Len(q) + 1 - i]]

\* app.add_middleware calls of main.py, in the order they are made
Registered == <<"cors", "error", "uow", "ownership", "correlation">>

\* variant: the stages run in the order of registration
MainPipeline_AsRegistered == Registered

\* add_middleware puts each middleware in front of those added before it:
\* the one added last is the outermost stage
MainPipeline == Reverse(Registered)

\* a UnitOfWorkMiddleware called with a handler as its next stage
DddUowPipeline  == <<"uow">>
RestUowPipeline == <<"rest_uow">>

\* the rest-ddd OwnershipMiddleware called with a handler as its next stage
RestOwnershipPipeline == <<"rest_ownership">>

\* ErrorHandlingMiddleware alone above a handler
ErrorPipeline == <<"error">>

---------------------------------------------------------------------------
(* ErrorHandlingMiddleware._map_error_code_to_status.  A string is the     *)
(* sequence of its characters.                                             *)

Lower == <<"a", "b", "c", "d", "e", "f", "g", "h", "i", "j", "k", "l", "m", "n", "o", "p", "q", "r", "s", "t", "u", "v", "w", "x", "y", "z">>
Upper == <<"A", "B", "C", "D", "E", "F", "G", "H", "I", "J", "K", "L", "M", "N", "O", "P", "Q", "R", "S", "T", "U", "V", "W", "X", "Y", "Z">>

\* str.upper for one character: a lower-case letter becomes its capital,
\* every other character is kept
UpperChar(c) ==
    IF \E k \in 1..Len(Lower) : Lower[k] = c
    THEN Upper[CHOOSE k \in 1..Len(Lower) : Lower[k] = c]
    ELSE c

upper(s) == [i \in 1..Len(s) |-> UpperChar(s[i])]

\* `kw in s`
Contains(s, kw) ==
    \E i \in 0..(Len(s) - Len(kw)) : SubSeq(s, i + 1, i + Len(kw)) = kw

NOT_FOUND      == <<"N", "O", "T", "_", "F", "O", "U", "N", "D">>
CONFLICT       == <<"C", "O", "N", "F", "L", "I", "C", "T">>
ALREADY_EXISTS == <<"A", "L", "R", "E", "A", "D", "Y", "_", "E", "X", "I", "S", "T", "S">>
VALIDATION     == <<"V", "A", "L", "I", "D", "A", "T", "I", "O", "N">>
UNAUTHORIZED   == <<"U", "N", "A", "U", "T", "H", "O", "R", "I", "Z", "E", "D">>
FORBIDDEN      == <<"F", "O", "R", "B", "I", "D", "D", "E", "N">>

\* str(p_code.value) of the five ExampleErrorCode members, and str(p_code)
\* of other codes: other cases, several keywords, no keyword, the empty
\* string, a number
ErrorCodes ==
    { <<"n", "o", "t", "_", "f", "o", "u", "n", "d">>,
      <<"v", "a", "l", "i", "d", "a", "t", "i", "o", "n", "_", "f", "a", "i", "l", "e", "d">>,
      <<"c", "o", "n", "f", "l", "i", "c", "t">>,
      <<"u", "n", "a", "u", "t", "h", "o", "r", "i", "z", "e", "d">>,
      <<"a", "l", "r", "e", "a", "d", "y", "_", "e", "x", "i", "s", "t", "s">>,
      <<"f", "o", "r", "b", "i", "d", "d", "e", "n">>,
      <<"i", "n", "t", "e", "r", "n", "a", "l", "_", "e", "r", "r", "o", "r">>,
      <<>>,
      <<"N", "O", "T", "_", "F", "O", "U", "N", "D">>,
      <<"N", "o", "t", "_", "F", "o", "u", "n", "d">>,
      <<"e", "x", "a", "m", "p", "l", "e", "_", "n", "o", "t", "_", "f", "o", "u", "n", "d">>,
      <<"c", "o", "n", "f", "l", "i", "c", "t", "_", "n", "o", "t", "_", "f", "o", "u", "n", "d">>,
      <<"v", "a", "l", "i", "d", "a", "t", "i", "o", "n", "_", "u", "n", "a", "u", "t", "h", "o", "r", "i", "z", "e", "d">>,
      <<"f", "o", "r", "b", "i", "d", "d", "e", "n", "_", "c", "o", "n", "f", "l", "i", "c", "t">>,
      <<"t", "e", "a", "p", "o", "t">>,
      <<"4", "0", "4">> }

\* variant: the code is compared as it is written
map_error_code_to_status_CaseSensitive(code) ==
    IF Contains(code, NOT_FOUND) THEN 404
    ELSE IF Contains(code, CONFLICT) \/ Contains(code, ALREADY_EXISTS) THEN 409
    ELSE IF Contains(code, VALIDATION) THEN 400
    ELSE IF Contains(code, UNAUTHORIZED) THEN 401
    ELSE IF Contains(code, FORBIDDEN) THEN 403
    ELSE 500

map_error_code_to_status(code) ==
    LET code_str == upper(code)
    IN  IF Contains(code_str, NOT_FOUND) THEN 404
        ELSE IF Contains(code_str, CONFLICT) \/ Contains(code_str, ALREADY_EXISTS) THEN 409
        ELSE IF Contains(code_str, VALIDATION) THEN 400
        ELSE IF Contains(code_str, UNAUTHORIZED) THEN 401
        ELSE IF Contains(code_str, FORBIDDEN) THEN 403
        ELSE 500

---------------------------------------------------------------------------
(* Requests in flight at the same time.  The application of main.py is one *)
(* DependencyContainer: every request meets the same coordinator, the same *)
(* repositories and the same event bus.                                    *)

ConcRequests == {"r1", "r2", "r3"}

\* a request slot nobody uses
ConcNone == [pc |-> "none", route |-> "update", id |-> "", name |-> "",
             model |-> NoModel, result |-> NoOutcome, calls |-> <<>>]

\* no function has been called directly
NoCall == [op |-> "none", args |-> <<>>, result |-> <<>>]

---------------------------------------------------------------------------
(* State machine *)

Init ==
    /\ store = EmptyStore
    /\ readStore \in ReadStores
    /\ subscribers = [t \in Topics |-> <<>>]
    /\ received = <<>>
    /\ uowState = "IDLE"
    /\ uowLast = "NONE"
    /\ txBase = EmptyStore
    /\ txWrites = 0
    /\ req = NoRequest
    /\ pipeline = <<>>
    /\ depth = 0
    /\ phase = "idle"
    /\ outcome = NoOutcome
    /\ handed = NoOutcome
    /\ trace = <<>>
    /\ conc = [r \in ConcRequests |-> ConcNone]
    /\ call = NoCall

Min(a, b) == IF a < b THEN a ELSE b

WriteCalls == {"repo.save", "repo.update", "repo.delete"}
RepoCalls  == WriteCalls \cup {"repo.find"}

CountWrites(calls) == Cardinality({i \in 1..Len(calls) : calls[i] \in WriteCalls})

\* bookkeeping of the coordinator variables for a stage step
CoordUpdate(st, began, ended) ==
    /\ uowState' = st
    /\ uowLast' = IF ended # "NONE" THEN ended ELSE uowLast
    /\ txBase' = IF began THEN store ELSE IF ended # "NONE" THEN EmptyStore ELSE txBase
    /\ txWrites' = IF began THEN 0 ELSE txWrites

\* a request arrives at the application assembled in main.py
ServeRequest ==
    /\ phase = "idle"
    /\ \E r \in RouteRequests : req' = r
    /\ pipeline' = MainPipeline
    /\ depth' = 0
    /\ phase' = "down"
    /\ outcome' = NoOutcome
    /\ handed' = NoOutcome
    /\ trace' = <<>>
    /\ UNCHANGED <<dataVars, uowVars, conc, call>>

\* a UnitOfWorkMiddleware (ddd or rest-ddd) is called with a request and a
\* next stage
CallMiddleware ==
    /\ phase = "idle"
    /\ \E r \in HandlerRequests : req' = r
    /\ pipeline' \in {DddUowPipeline, RestUowPipeline}
    /\ depth' = 0
    /\ phase' = "down"
    /\ outcome' = NoOutcome
    /\ handed' = NoOutcome
    /\ trace' = <<>>
    /\ UNCHANGED <<dataVars, uowVars, conc, call>>

\* the rest-ddd OwnershipMiddleware is called with a request and a next stage
CallOwnershipMiddleware ==
    /\ phase = "idle"
    /\ \E r \in OwnershipRequests : req' = r
    /\ pipeline' = RestOwnershipPipeline
    /\ depth' = 0
    /\ phase' = "down"
    /\ outcome' = NoOutcome
    /\ handed' = NoOutcome
    /\ trace' = <<>>
    /\ UNCHANGED <<dataVars, uowVars, conc, call>>

\* requests given to ErrorHandlingMiddleware: the next stage may also raise
\* a ServiceException that is not a TypedServiceException
ErrorRequests ==
    HandlerRequests \cup { Request(m, "stub", "", "", "raise_service") : m \in Methods }

\* ErrorHandlingMiddleware is called with a request and a next stage
CallErrorMiddleware ==
    /\ phase = "idle"
    /\ \E r \in ErrorRequests : req' = r
    /\ pipeline' = ErrorPipeline
    /\ depth' = 0
    /\ phase' = "down"
    /\ outcome' = NoOutcome
    /\ handed' = NoOutcome
    /\ trace' = <<>>
    /\ UNCHANGED <<dataVars, uowVars, conc, call>>

\* the stage at depth + 1 runs up to its `await p_call_next(p_request)`
Enter(stage) ==
    /\ phase = "down"
    /\ depth < Len(pipeline)
    /\ pipeline[depth + 1] = stage
    /\ LET b == StageBefore(stage, req, uowState)
       IN  /\ trace' = trace \o b.calls
           /\ CoordUpdate(b.state, b.began, b.ended)
           /\ IF b.descend
              THEN /\ depth' = depth + 1
                   /\ UNCHANGED <<phase, outcome>>
              ELSE /\ phase' = "up"
                   /\ outcome' = b.outcome
                   /\ UNCHANGED depth
    /\ UNCHANGED <<dataVars, req, pipeline, handed, conc, call>>

EnterCorrelation == Enter("correlation")
EnterOwnership   == Enter("ownership")
EnterUow         == Enter("uow")
EnterRestUow     == Enter("rest_uow")
EnterRestOwnership == Enter("rest_ownership")
EnterError       == Enter("error")
EnterCors        == Enter("cors")

\* the terminal handler: the controller method with its service call, the
\* repository calls and the handler invocations of publish_async
Handle ==
    /\ phase = "down"
    /\ depth = Len(pipeline)
    /\ \E newId \in NewIds(store) :
         LET h   == Controller(req, store, readStore, subscribers, newId)
             out == IF h.result.kind = "exception" THEN h.result ELSE AfterOutcome(req)
         IN  /\ store' = h.store
             /\ received' = received \o h.delivered
             /\ outcome' = out
             /\ handed' = out
             /\ trace' = trace \o <<"handler.enter">> \o h.calls
                           \o <<IF out.kind = "exception" THEN "handler.raise"
                                                           ELSE "handler.return">>
             /\ txWrites' = IF uowState = "ACTIVE"
                            THEN Min(txWrites + CountWrites(h.calls), MaxTxWrites)
                            ELSE txWrites
    /\ phase' = "up"
    /\ UNCHANGED <<readStore, subscribers, uowState, uowLast, txBase, req, pipeline, depth,
                   conc, call>>

\* the stage at `depth` resumes with the outcome of the stage below it
Leave(stage) ==
    /\ phase = "up"
    /\ depth >= 1
    /\ pipeline[depth] = stage
    /\ LET a == StageAfter(stage, req, uowState, outcome)
       IN  /\ trace' = trace \o a.calls
           /\ outcome' = a.outcome
           /\ CoordUpdate(a.state, FALSE, a.ended)
    /\ depth' = depth - 1
    /\ UNCHANGED <<dataVars, req, pipeline, phase, handed, conc, call>>

LeaveCorrelation == Leave("correlation")
LeaveOwnership   == Leave("ownership")
LeaveUow         == Leave("uow")
LeaveRestUow     == Leave("rest_uow")
LeaveRestOwnership == Leave("rest_ownership")
LeaveError       == Leave("error")
LeaveCors        == Leave("cors")

\* the outermost stage has returned or raised to the caller of the pipeline
Finish ==
    /\ phase = "up"
    /\ depth = 0
    /\ phase' = "done"
    /\ trace' = trace \o <<IF outcome.kind = "exception" THEN "pipeline.raise"
                                                         ELSE "pipeline.return">>
    /\ UNCHANGED <<dataVars, uowVars, req, pipeline, depth, outcome, handed, conc, call>>

\* the request is over; what was recorded about it is dropped
Recycle ==
    /\ phase = "done"
    /\ phase' = "idle"
    /\ req' = NoRequest
    /\ pipeline' = <<>>
    /\ outcome' = NoOutcome
    /\ handed' = NoOutcome
    /\ trace' = <<>>
    /\ received' = <<>>
    /\ uowLast' = "NONE"
    /\ txWrites' = 0
    /\ UNCHANGED <<store, readStore, subscribers, uowState, txBase, depth, conc, call>>

Registrations == Len(subscribers["example.created"]) + Len(subscribers["example.updated"])
                   + Len(subscribers["example.deleted"])

\* InMemoryEventBus.subscribe_async, at most `max` registrations
Subscribe(max) ==
    /\ phase = "idle"
    /\ Registrations < max
    /\ \E t \in Topics, h \in Handlers :
         subscribers' = [subscribers EXCEPT ![t] = Append(@, h)]
    /\ UNCHANGED <<store, readStore, received, uowVars, reqVars, conc, call>>

subscribe_async == Subscribe(MaxSubs)

\* models handed to the repository by a caller other than the service,
\* built with ExampleModel.hydrate
SeedModels ==
    [id : Ids, name : {"Widget"}, description : {"desc"}, owner_id : Users,
     is_active : {TRUE}, created_at : {utcnow}, updated_at : {utcnow}]

Models ==
    [id : Ids, name : Names, description : {"desc"}, owner_id : Users,
     is_active : BOOLEAN, created_at : {utcnow}, updated_at : {utcnow}]

CountWrite == txWrites' = IF uowState = "ACTIVE" THEN Min(txWrites + 1, MaxTxWrites)
                                                 ELSE txWrites

\* data present before the requests: ExampleCommandRepository.save_async
\* called outside of a request
Seed ==
    /\ phase = "idle"
    /\ uowState = "IDLE"
    /\ \A r \in ConcRequests : conc[r].pc = "none"
    /\ \E m \in SeedModels : store' = save_async(store, m).store
    /\ UNCHANGED <<readStore, subscribers, received, uowVars, reqVars, conc, call>>

---------------------------------------------------------------------------
(* The coordinator and the command repository called directly *)

Coord(op) ==
    /\ phase = "idle"
    /\ LET c == CoordStep(uowState, op)
       IN  /\ c.ok
           /\ CoordUpdate(c.state, op = "begin", c.ended)
    /\ UNCHANGED <<dataVars, reqVars, conc, call>>

begin_transaction_async == Coord("begin")
commit_async            == Coord("commit")
rollback_async          == Coord("rollback")
save_changes_async      == Coord("save_changes")

RepoSave ==
    /\ phase = "idle"
    /\ \E m \in Models : store' = save_async(store, m).store
    /\ CountWrite
    /\ UNCHANGED <<readStore, subscribers, received, uowState, uowLast, txBase, reqVars,
                   conc, call>>

RepoUpdate ==
    /\ phase = "idle"
    /\ \E m \in Models :
         /\ update_async(store, m).ok
         /\ store' = update_async(store, m).store
    /\ CountWrite
    /\ UNCHANGED <<readStore, subscribers, received, uowState, uowLast, txBase, reqVars,
                   conc, call>>

RepoDelete ==
    /\ phase = "idle"
    /\ \E id \in Ids :
         /\ delete_async(store, id).ok
         /\ store' = delete_async(store, id).store
    /\ CountWrite
    /\ UNCHANGED <<readStore, subscribers, received, uowState, uowLast, txBase, reqVars,
                   conc, call>>

---------------------------------------------------------------------------
(* The event bus called directly *)

BusSubscribe == Subscribe(MaxHandlers)

\* InMemoryEventBus.publish_async(event, topic); the trace holds the call
\* with its topic and one entry per handler invocation
BusPublish ==
    /\ phase = "idle"
    /\ \E t \in Topics, n \in Names :
         LET event == Event("ExampleUpdatedEvent", "e1", n, "", "")
             sent  == publish_async(subscribers, event, t)
         IN  /\ received' = sent
             /\ outcome' = publish_result(subscribers, t)
             /\ trace' = <<"bus.publish", t>> \o Repeat("bus.deliver", Len(sent))
    /\ UNCHANGED <<store, readStore, subscribers, uowVars, req, pipeline, depth, phase,
                   handed, conc, call>>

---------------------------------------------------------------------------
(* Concurrent PUT /api/v1/examples/{id} requests of the application of     *)
(* main.py.  A request can be suspended at each `await` of a coordinator,  *)
(* repository or bus call, where another request runs.  The stages without *)
(* coordinator or repository calls pass the request on unchanged; the path *)
(* is UnitOfWorkMiddleware -> ErrorHandlingMiddleware -> controller ->     *)
(* ExampleService.update_example_async.                                    *)

ConcRequest(r) == Request("PUT", "update", conc[r].id, conc[r].name, "route")

\* the request arrives
ConcArrive(r) ==
    /\ phase = "idle"
    /\ conc[r].pc = "none"
    /\ \E id \in Ids, n \in Names :
         conc' = [conc EXCEPT ![r] = [ConcNone EXCEPT !.pc = "start", !.id = id,
                                                      !.name = n]]
    /\ UNCHANGED <<dataVars, uowVars, reqVars, call>>

\* UnitOfWorkMiddleware.__call__ up to `await p_call_next(p_request)`
ConcBegin(r) ==
    /\ conc[r].pc = "start"
    /\ LET b == ddd_uow_before(ConcRequest(r), uowState)
       IN  /\ CoordUpdate(b.state, b.began, b.ended)
           /\ conc' = [conc EXCEPT ![r].pc = IF b.descend THEN "begun" ELSE "done",
                                    ![r].result = b.outcome,
                                    ![r].calls = b.calls]
    /\ UNCHANGED <<dataVars, reqVars, call>>

\* update_example_async: load the model, validate the ownership
ConcFind(r) ==
    /\ conc[r].pc = "begun"
    /\ LET found == find_by_id_for_command_async(store, conc[r].id)
           c     == [conc[r] EXCEPT !.calls = @ \o <<"handler.enter">>]
       IN  conc' = [conc EXCEPT ![r] =
                IF ~found.found
                THEN [c EXCEPT !.pc = "raised", !.result = Raised("ValueError", "")]
                ELSE IF ~OwnedBy(found.model, CurrentUser)
                THEN [c EXCEPT !.pc = "raised",
                               !.result = Raised("ExampleServiceException", "unauthorized")]
                ELSE [c EXCEPT !.pc = "loaded", !.model = found.model]]
    /\ UNCHANGED <<dataVars, uowVars, reqVars, call>>

\* update_example_async: update the model, write it, publish the event
ConcUpdate(r) ==
    /\ conc[r].pc = "loaded"
    /\ LET changed == update_details(conc[r].model, conc[r].name, "desc")
           written == update_async(store, changed.model)
           event   == Event("ExampleUpdatedEvent", conc[r].id, changed.model.name, "", "")
           sent    == publish_async(subscribers, event, "example.updated")
       IN  IF changed.ok /\ written.ok
           THEN /\ store' = written.store
                /\ received' = received \o sent
                /\ txWrites' = IF uowState = "ACTIVE"
                               THEN Min(txWrites + 1, MaxTxWrites) ELSE txWrites
                /\ conc' = [conc EXCEPT ![r].pc = "updated", ![r].model = changed.model]
           ELSE /\ conc' = [conc EXCEPT ![r].pc = "raised",
                                        ![r].result = Raised("ValueError", "")]
                /\ UNCHANGED <<store, received, txWrites>>
    /\ UNCHANGED <<readStore, subscribers, uowState, uowLast, txBase, reqVars, call>>

\* the controller returns or raises; ErrorHandlingMiddleware and then
\* UnitOfWorkMiddleware resume
ConcEnd(r) ==
    /\ conc[r].pc \in {"updated", "raised"}
    /\ LET out == IF conc[r].pc = "updated"
                  THEN Response(RouteStatus("update"), "ok") ELSE conc[r].result
           e   == error_after(ConcRequest(r), uowState, out)
           a   == ddd_uow_after(ConcRequest(r), uowState, e.outcome)
       IN  /\ CoordUpdate(a.state, FALSE, a.ended)
           /\ conc' = [conc EXCEPT ![r].pc = "done", ![r].result = a.outcome,
                                    ![r].calls = @ \o a.calls]
    /\ UNCHANGED <<dataVars, reqVars, call>>

ConcArriveAny == \E r \in ConcRequests : ConcArrive(r)
ConcBeginAny  == \E r \in ConcRequests : ConcBegin(r)
ConcFindAny   == \E r \in ConcRequests : ConcFind(r)
ConcUpdateAny == \E r \in ConcRequests : ConcUpdate(r)
ConcEndAny    == \E r \in ConcRequests : ConcEnd(r)

---------------------------------------------------------------------------
(* Functions called directly, outside of a request *)

Called(op, args, result) ==
    /\ phase = "idle"
    /\ uowState = "IDLE"
    /\ call' = [op |-> op, args |-> args, result |-> result]

\* p_skip and p_take are the integers of the query string of GET /examples
SliceArgs == -2..3

ListByFilter ==
    /\ \E skip \in SliceArgs, take \in SliceArgs :
         Called("list_by_filter_async", <<skip, take>>,
                list_by_filter_async(readStore, skip, take))
    /\ UNCHANGED <<dataVars, uowVars, reqVars, conc>>

\* ids handed to a direct call: the ids of the stores and one never stored
CallIds == Ids \cup {"e3"}

FindById ==
    /\ \E id \in CallIds :
         Called("find_by_id_async", <<id>>, find_by_id_async(readStore, id))
    /\ UNCHANGED <<dataVars, uowVars, reqVars, conc>>

GetExample ==
    /\ \E id \in CallIds :
         Called("get_example_async", <<id>>, get_example_async(store, readStore, id).result)
    /\ UNCHANGED <<dataVars, uowVars, reqVars, conc>>

\* the command repository called with any id, stored or not; the result is
\* FALSE when the call raised its ValueError("Example ... not found")
RepoFindCall ==
    /\ \E id \in CallIds :
         Called("find_by_id_for_command_async", <<id>>,
                find_by_id_for_command_async(store, id).found)
    /\ UNCHANGED <<dataVars, uowVars, reqVars, conc>>

RepoUpdateCall ==
    /\ \E m \in Models :
         /\ Called("update_async", <<m.id>>, update_async(store, m).ok)
         /\ store' = update_async(store, m).store
    /\ UNCHANGED <<readStore, subscribers, received, uowVars, reqVars, conc>>

RepoDeleteCall ==
    /\ \E id \in CallIds :
         /\ Called("delete_async", <<id>>, delete_async(store, id).ok)
         /\ store' = delete_async(store, id).store
    /\ UNCHANGED <<readStore, subscribers, received, uowVars, reqVars, conc>>

\* ExampleService operations called by a caller other than the controller:
\* any name, any user id
CallUsers == Users \cup {""}

ServiceCall(op, r) ==
    /\ Called(op, <<>>, [written |-> r.written, calls |-> r.calls,
                         raised |-> r.result.kind = "exception"])
    /\ store' = r.store
    /\ received' = received \o r.delivered

SvcCreate ==
    /\ \E newId \in NewIds(store), name \in ReqNames, user \in CallUsers :
         ServiceCall("create_example_async",
                     create_example_async(store, subscribers, newId, name, user,
                                          CurrentCorrelation))
    /\ UNCHANGED <<readStore, subscribers, uowVars, reqVars, conc>>

SvcUpdate ==
    /\ \E id \in CallIds, name \in ReqNames, user \in CallUsers :
         ServiceCall("update_example_async",
                     update_example_async(store, subscribers, id, name, user))
    /\ UNCHANGED <<readStore, subscribers, uowVars, reqVars, conc>>

\* update_example_async or delete_example_async of the current user up to
\* the return of `await find_by_id_for_command_async`, where it is suspended
SvcLoad ==
    /\ phase = "idle"
    /\ uowState = "IDLE"
    /\ \A r \in ConcRequests : conc[r].pc = "none"
    /\ \E id \in Ids, route \in {"update", "delete"} :
         LET found == find_by_id_for_command_async(store, id)
         IN  /\ found.found
             /\ OwnedBy(found.model, CurrentUser)
             /\ conc' = [conc EXCEPT !["r1"] =
                    [ConcNone EXCEPT !.pc = "loaded", !.route = route, !.id = id,
                                     !.name = IF route = "update" THEN "Gadget" ELSE "",
                                     !.model = found.model]]
    /\ UNCHANGED <<dataVars, uowVars, reqVars, call>>

\* the suspended operation resumes and runs to its end
SvcResume ==
    /\ conc["r1"].pc = "loaded"
    /\ LET c == conc["r1"]
       IN  IF c.route = "update"
           THEN ServiceCall("update_example_async",
                    ResumedAfter(<<"repo.find">>,
                        update_example_write(store, subscribers, c.model, c.name)))
           ELSE ServiceCall("delete_example_async",
                    ResumedAfter(<<"repo.find">>,
                        delete_example_write(store, subscribers, c.id)))
    /\ conc' = [conc EXCEPT !["r1"] = ConcNone]
    /\ UNCHANGED <<readStore, subscribers, uowVars, reqVars>>

SvcSetActive ==
    /\ \E id \in CallIds, user \in CallUsers, active \in BOOLEAN :
         ServiceCall(IF active THEN "activate_example_async"
                               ELSE "deactivate_example_async",
                     set_active_example_async(store, id, user, active))
    /\ UNCHANGED <<readStore, subscribers, uowVars, reqVars, conc>>

\* A message template is the sequence of its parts: literal text, or a
\* replacement field "{key}" (the field "{}" has the empty key).
Text(t)    == [kind |-> "text", v |-> t]
Field(key) == [kind |-> "field", v |-> key]

\* _MESSAGE_TEMPLATES of an exception class: one field, two fields, a
\* positional field; the code UNKNOWN has no template
MessageTemplates ==
    [ NOT_FOUND |-> <<Text("Example '"), Field("id"), Text("' not found")>>,
      CONFLICT  |-> <<Text("Example '"), Field("name"), Text("' of '"), Field("owner"),
                      Text("' already exists")>>,
      INVALID   |-> <<Text("Validation failed: "), Field("")>> ]

MessageCodes == DOMAIN MessageTemplates \cup {"UNKNOWN"}

\* p_details: every mapping from some of the keys to a value
DetailsMaps ==
    UNION { [keys -> {"v"}] : keys \in SUBSET {"id", "name", "owner"} }

\* what formatting hands back: the message, or the exception it raised
Formatted(message) == [raised |-> "", message |-> message]

\* template.replace("{key}", str(value)) for every item of p_details
ReplaceFields(template, details) ==
    [i \in 1..Len(template) |->
        IF template[i].kind = "field" /\ template[i].v \in DOMAIN details
        THEN Text(details[template[i].v])
        ELSE template[i]]

\* TypedServiceException._format_message (ddd)
typed_format_message(code, templates, details) ==
    IF code \notin DOMAIN templates
    THEN Formatted(<<Text("Error occurred: "), Text(code)>>)
    ELSE IF DOMAIN details = {}
    THEN Formatted(templates[code])
    ELSE Formatted(ReplaceFields(templates[code], details))

\* str.format(**p_details): a positional field finds no positional argument
\* (IndexError), a named field without keyword raises KeyError
StrFormat(template, details) ==
    LET fields == {template[i].v : i \in {j \in 1..Len(template) :
                                            template[j].kind = "field"}}
    IN  IF "" \in fields THEN [raised |-> "IndexError", message |-> <<>>]
        ELSE IF ~(fields \subseteq DOMAIN details)
        THEN [raised |-> "KeyError", message |-> <<>>]
        ELSE Formatted(ReplaceFields(template, details))

\* ServiceExceptionGeneric._format_message (rest-ddd): only KeyError is caught
generic_format_message(code, templates, details) ==
    LET template == IF code \in DOMAIN templates THEN templates[code]
                    ELSE <<Text("Error: "), Text(code)>>
        done     == StrFormat(template, details)
    IN  IF DOMAIN details = {} THEN Formatted(template)
        ELSE IF done.raised = "KeyError" THEN Formatted(template)
        ELSE done

FormatMessage ==
    /\ \E code \in MessageCodes, details \in DetailsMaps :
         \/ Called("_format_message", <<"ddd", code, details>>,
                   typed_format_message(code, MessageTemplates, details))
         \/ Called("_format_message", <<"rest-ddd", code, details>>,
                   generic_format_message(code, MessageTemplates, details))
    /\ UNCHANGED <<dataVars, uowVars, reqVars, conc>>

\* write entities as a database may hold them: any instants, any version
WriteEntities ==
    [id : Ids, name : Names \cup {""}, description : {"desc", ""}, owner_id : Users,
     is_active : BOOLEAN, created_at : Times, updated_at : Times,
     version : {0, 1}]

RoundTrip ==
    /\ \E e \in WriteEntities :
         Called("to_write_entity", <<e>>,
                to_write_entity(to_model_from_write_entity(e)))
    /\ UNCHANGED <<dataVars, uowVars, reqVars, conc>>

\* the models update_details is called on: last changed at an earlier instant
UpdatedModels ==
    [id : {"e1"}, name : Names, description : {"desc"}, owner_id : Users,
     is_active : BOOLEAN, created_at : {"t0"}, updated_at : {"t0"}]

\* ExampleModel.update_details called on a model with any name and either
\* the description it has or another one
UpdateDetails ==
    /\ \E m \in UpdatedModels, name \in ReqNames, description \in {"desc", "other"} :
         Called("update_details", <<m, name, description>>,
                update_details(m, name, description))
    /\ UNCHANGED <<dataVars, uowVars, reqVars, conc>>

MapErrorCode ==
    /\ \E code \in ErrorCodes :
         Called("_map_error_code_to_status", <<code>>, map_error_code_to_status(code))
    /\ UNCHANGED <<dataVars, uowVars, reqVars, conc>>

---------------------------------------------------------------------------
(* Specifications *)

\* requests through the pipelines
Next ==
    \/ ServeRequest \/ CallMiddleware \/ CallOwnershipMiddleware
    \/ CallErrorMiddleware
    \/ EnterCorrelation \/ EnterOwnership \/ EnterUow \/ EnterRestUow
    \/ EnterRestOwnership \/ EnterError \/ EnterCors
    \/ Handle
    \/ LeaveCorrelation \/ LeaveOwnership \/ LeaveUow \/ LeaveRestUow
    \/ LeaveRestOwnership \/ LeaveError \/ LeaveCors
    \/ Finish \/ Recycle
    \/ subscribe_async \/ Seed

Spec == Init /\ [][Next]_vars

\* the coordinator and the command repository driven call by call
NextRepo ==
    \/ begin_transaction_async \/ commit_async \/ rollback_async
    \/ save_changes_async
    \/ RepoSave \/ RepoUpdate \/ RepoDelete

SpecRepo == Init /\ [][NextRepo]_vars

\* concurrent requests of the application of main.py
NextConc ==
    \/ Seed
    \/ ConcArriveAny \/ ConcBeginAny \/ ConcFindAny \/ ConcUpdateAny \/ ConcEndAny

SpecConc == Init /\ [][NextConc]_vars

\* the event bus driven call by call
NextBus == BusSubscribe \/ BusPublish

SpecBus == Init /\ [][NextBus]_vars

\* pure functions applied to inputs of their domains
NextFn ==
    \/ MapErrorCode
    \/ ListByFilter
    \/ RoundTrip
    \/ FormatMessage
    \/ UpdateDetails

SpecFn == Init /\ [][NextFn]_vars

\* repositories and service operations driven call by call
NextCalls ==
    \/ Seed
    \/ FindById \/ GetExample
    \/ RepoFindCall \/ RepoUpdateCall \/ RepoDeleteCall
    \/ SvcCreate \/ SvcUpdate \/ SvcSetActive

SpecCalls == Init /\ [][NextCalls]_vars

\* service operations suspended at an await while other calls run
NextSuspended ==
    \/ Seed
    \/ SvcCreate \/ SvcUpdate
    \/ SvcLoad \/ SvcResume
    \/ RepoDeleteCall

SpecSuspended == Init /\ [][NextSuspended]_vars

TypeOK ==
    /\ DOMAIN store \subseteq Ids
    /\ \A id \in DOMAIN store : store[id] \in Entities /\ store[id].id = id
    /\ readStore \in ReadStores
    /\ uowState \in {"IDLE", "ACTIVE"}
    /\ uowLast \in {"NONE", "COMMITTED", "ROLLED_BACK"}
    /\ txWrites \in 0..MaxTxWrites
    /\ phase \in {"idle", "down", "up", "done"}
    /\ depth \in 0..Len(pipeline)

---------------------------------------------------------------------------
(* Properties *)

Has(label) == \E i \in 1..Len(trace) : trace[i] = label

\* index of the first occurrence of label in the trace, 0 when it is absent
First(label) ==
    IF Has(label)
    THEN CHOOSE i \in 1..Len(trace) :
            trace[i] = label /\ \A j \in 1..(i - 1) : trace[j] # label
    ELSE 0

Stages == {pipeline[i] : i \in 1..Len(pipeline)}

\* the request in progress is inside a transaction scope of a
\* UnitOfWorkMiddleware
Scoped ==
    \/ "uow" \in Stages /\ IsMutating(req.method)
    \/ "rest_uow" \in Stages

\* a UnitOfWorkMiddleware whose next stage is the terminal handler
UowAboveHandler ==
    /\ Len(pipeline) >= 1
    /\ pipeline[Len(pipeline)] \in {"uow", "rest_uow"}

EndCalls == {"uow.commit", "uow.rollback"}

\* C1: for a mutating request handled by UnitOfWorkMiddleware, every
\* invocation of a subscriber handler with an event of the request comes
\* after the commit of the request's transaction.
C1_DeliveryAfterCommit ==
    Scoped =>
        \A i \in 1..Len(trace) :
            trace[i] = "bus.deliver" =>
                \E j \in 1..(i - 1) : trace[j] = "uow.commit"

\* C2: when the transaction of a mutating request ends in rollback, no
\* subscriber has received an event produced by that request.
C2_RolledBackEventsDiscarded ==
    (Scoped /\ Has("uow.rollback")) => received = <<>>

\* what the command and query repositories let a caller observe
Observable(s, rs) ==
    [exists |-> [id \in Ids |-> exists_async(s, id)],
     found  |-> [id \in Ids |-> find_by_id_for_command_async(s, id)],
     query  |-> [id \in Ids |-> find_by_id_async(rs, id)],
     list   |-> list_by_filter_async(rs, 0, 10)]

\* C3: after begin, n >= 1 repository writes and rollback, the
\* repositories return what they returned before begin.
C3_RollbackUndoesWrites ==
    [][ ( /\ uowState = "ACTIVE"
          /\ uowState' = "IDLE"
          /\ uowLast' = "ROLLED_BACK"
          /\ txWrites >= 1 )
        => Observable(store', readStore') = Observable(txBase, readStore) ]_vars

\* C4: in both UnitOfWorkMiddleware variants, when the next stage raises
\* while a mutating request is processed, rollback is invoked before the
\* exception is re-raised, the exception re-raised is the one the next
\* stage raised, and commit is not invoked for the request.
C4_RollbackThenReraise ==
    (UowAboveHandler /\ Scoped /\ handed.kind = "exception" /\ phase = "done") =>
        /\ outcome = handed
        /\ Has("uow.rollback")
        /\ First("uow.rollback") < First("pipeline.raise")
        /\ ~Has("uow.commit")
        /\ uowState = "IDLE" /\ uowLast = "ROLLED_BACK"

C4_Witness ==
    /\ phase = "done"
    /\ pipeline = RestUowPipeline
    /\ handed.kind = "exception"
    /\ Has("uow.rollback")
    /\ Has("repo.update")

\* C5: for a mutating request whose next stage returns a response, the ddd
\* UnitOfWorkMiddleware invokes commit iff status_code < 400, rollback iff
\* status_code >= 400, and returns the response unchanged.
C5_CommitIffBelow400 ==
    ( /\ pipeline = DddUowPipeline /\ IsMutating(req.method) /\ phase = "done"
      /\ handed.kind = "response" ) =>
        /\ outcome = handed
        /\ Has("uow.commit") <=> (handed.status # NoStatus /\ handed.status < 400)
        /\ Has("uow.rollback") <=> (handed.status # NoStatus /\ handed.status >= 400)

\* the decision of the ddd UnitOfWorkMiddleware for the responses that carry
\* a status_code: commit below 400, rollback from 400 on, response returned
C5_DecisionOnStatusCode ==
    ( /\ pipeline = DddUowPipeline /\ IsMutating(req.method) /\ phase = "done"
      /\ handed.kind = "response" /\ handed.status # NoStatus ) =>
        /\ outcome = handed
        /\ Has("uow.commit") <=> handed.status < 400
        /\ Has("uow.rollback") <=> handed.status >= 400
        /\ uowLast = IF handed.status < 400 THEN "COMMITTED" ELSE "ROLLED_BACK"

C5_Witness ==
    /\ pipeline = DddUowPipeline /\ IsMutating(req.method) /\ phase = "done"
    /\ handed.kind = "response" /\ handed.status = 400
    /\ Has("uow.rollback")

\* C6: for a mutating request through UnitOfWorkMiddleware, begin has been
\* invoked before the handler's first repository call, and every repository
\* call of the handler precedes the commit or rollback of the request.
C6_RepositoryCallsInsideTransaction ==
    Scoped =>
        \A i \in 1..Len(trace) :
            trace[i] \in RepoCalls =>
                /\ \E j \in 1..(i - 1) : trace[j] = "uow.begin"
                /\ \A k \in 1..Len(trace) : trace[k] \in EndCalls => i < k

C6_Witness ==
    /\ Scoped /\ phase = "done"
    /\ Has("repo.find") /\ Has("repo.update") /\ Has("uow.commit")

\* C7: in the pipeline of main.py no exception escapes: every request ends
\* with a response, and a request whose handler or inner stage raised ends
\* with an ErrorResponseDto.
C7_NoExceptionEscapes ==
    (pipeline = MainPipeline /\ phase = "done") =>
        /\ outcome.kind = "response"
        /\ (handed.kind = "exception" \/ Has("uow.caught")) =>
               outcome.body = "ErrorResponseDto"

\* C8: in the pipeline of main.py, when the handler of a mutating request
\* raises, the transactional stage has caught the exception and invoked
\* rollback by the time ErrorHandlingMiddleware catches it.
C8_RollbackBeforeErrorHandling ==
    ( /\ pipeline = MainPipeline /\ IsMutating(req.method)
      /\ handed.kind = "exception" /\ Has("error.caught") ) =>
        /\ Has("uow.rollback")
        /\ First("uow.caught") < First("uow.rollback")
        /\ First("uow.rollback") < First("error.caught")

\* C9: in the pipeline of main.py the stages are entered in the order
\* correlation id, ownership, transactional scoping, handler; the ownership
\* check is finished before begin is invoked and begin before the handler
\* runs.
C9_StageOrder ==
    (pipeline = MainPipeline /\ Has("handler.enter")) =>
        /\ 0 < First("correlation.enter")
        /\ First("correlation.enter") < First("ownership.enter")
        /\ First("ownership.enter") < First("uow.enter")
        /\ First("uow.enter") < First("handler.enter")
        /\ IsMutating(req.method) =>
              /\ 0 < First("ownership.checked")
              /\ First("ownership.checked") < First("uow.begin")
              /\ First("uow.begin") < First("handler.enter")

C9_Witness ==
    /\ pipeline = MainPipeline /\ phase = "done"
    /\ Has("handler.enter") /\ Has("uow.begin") /\ Has("ownership.checked")

CoordCalls == {"uow.begin", "uow.commit", "uow.rollback", "uow.save_changes"}

\* C10: for a request whose method is none of POST, PUT, PATCH, DELETE the
\* ddd UnitOfWorkMiddleware invokes no coordinator operation, leaves the
\* coordinator as it was, and returns the result of the next stage.
C10_ReadOnlyBypass ==
    ("uow" \in Stages /\ req.method \notin {"POST", "PUT", "PATCH", "DELETE"}) =>
        /\ \A i \in 1..Len(trace) : trace[i] \notin CoordCalls
        /\ uowState = "IDLE" /\ uowLast = "NONE" /\ txBase = EmptyStore
        /\ (pipeline = DddUowPipeline /\ phase = "done") => outcome = handed

C10_Witness ==
    /\ pipeline = DddUowPipeline /\ phase = "done"
    /\ req.method = "OPTIONS"
    /\ handed.kind = "response"
    /\ Has("uow.enter")

\* C11: the rest-ddd UnitOfWorkMiddleware invokes neither begin nor commit
\* nor rollback on the coordinator for a read-only request.
C11_RestReadOnlyBypass ==
    ("rest_uow" \in Stages /\ req.method \notin {"POST", "PUT", "PATCH", "DELETE"}) =>
        \A i \in 1..Len(trace) : trace[i] \notin CoordCalls

\* C12: a non-GET request of the application of main.py that targets a
\* stored resource the requesting user does not own is not passed on by
\* the OwnershipMiddleware and ends as forbidden.
C12_OwnershipFailsClosed ==
    ( /\ pipeline = MainPipeline /\ req.method # "GET"
      /\ req.id \in DOMAIN store /\ store[req.id].owner_id # CurrentUser
      /\ Has("ownership.enter") ) =>
        /\ ~Has("uow.enter")
        /\ ~Has("handler.enter")
        /\ phase = "done" => (outcome.kind = "exception" /\ outcome.status = 403)

\* C13: in the rest-ddd OwnershipMiddleware, for a request with the id of a
\* resource that is not public, the next stage is invoked iff
\* verify_ownership_async returned true; otherwise ForbiddenException
\* (status_code 403) is raised and the next stage is never invoked.
C13_NextIffOwnershipVerified ==
    ( /\ pipeline = RestOwnershipPipeline /\ req.id # "" /\ ~req.is_public
      /\ phase = "done" ) =>
        /\ Has("ownership.verify")
        /\ Has("handler.enter") <=> req.has_access
        /\ ~req.has_access =>
              /\ outcome.kind = "exception"
              /\ outcome.exc = "ForbiddenException"
              /\ outcome.status = 403
              /\ handed = NoOutcome

C13_Witness ==
    /\ pipeline = RestOwnershipPipeline /\ phase = "done"
    /\ req.id = "e1" /\ ~req.is_public /\ ~req.has_access
    /\ outcome.exc = "ForbiddenException"
    /\ ~Has("handler.enter")

\* the handler's service call is one of the four operations on an existing
\* entity that validate the ownership
OwnerCheckedCall ==
    /\ phase = "down" /\ phase' = "up"
    /\ req.route \in {"update", "delete", "activate", "deactivate"}
    /\ req.route = "update" => RequestValid(req.name)
    /\ req.id \in DOMAIN store

Unauthorized == Raised("ExampleServiceException", "unauthorized")

\* C14: update, delete, activate and deactivate of an existing entity whose
\* stored owner differs from the requesting user raise
\* ExampleServiceException(UNAUTHORIZED) before any repository write: no
\* update_async / delete_async call, command store unchanged, no event
\* published, and the enclosing transaction is rolled back.
C14_ForeignOwnerRefusedBeforeWrite ==
    /\ [][ (OwnerCheckedCall /\ store[req.id].owner_id # CurrentUser) =>
             /\ handed' = Unauthorized
             /\ store' = store
             /\ received' = received
             /\ \A i \in 1..Len(trace') :
                    trace'[i] \notin WriteCalls \cup {"bus.publish", "bus.deliver"} ]_vars
    /\ []( (Scoped /\ handed = Unauthorized /\ phase = "done") =>
             /\ Has("uow.rollback")
             /\ ~Has("uow.commit")
             /\ uowState = "IDLE" /\ uowLast = "ROLLED_BACK" )

C14_Witness ==
    /\ pipeline = MainPipeline /\ phase = "done"
    /\ req.route = "update" /\ req.id \in DOMAIN store
    /\ store[req.id].owner_id # CurrentUser
    /\ handed = Unauthorized
    /\ Has("uow.rollback")

\* C15: create_example_async with name "Widget" and an authenticated user
\* persists an entity owned by that user in the command store, returns the
\* generated id, and every subscriber of example.created receives an event
\* with that id whose name is "Widget".
C15_CreatePersistsAndPublishes ==
    [][ (phase = "down" /\ phase' = "up" /\ req.route = "create" /\ req.name = "Widget") =>
          /\ handed'.kind = "response"
          /\ \E id \in (DOMAIN store') \ (DOMAIN store) :
                /\ store'[id].owner_id = CurrentUser
                /\ store'[id].name = "Widget"
                /\ \A k \in 1..Len(subscribers["example.created"]) :
                      \E i \in 1..Len(received') :
                          /\ received'[i].handler = subscribers["example.created"][k]
                          /\ received'[i].event.example_id = id
                          /\ received'[i].event.name = "Widget" ]_vars

\* C16: update, delete, activate and deactivate called with an id absent
\* from the command store raise ExampleServiceException(NOT_FOUND), the
\* typed exception error normalization is handed.
C16_AbsentIdIsNotFound ==
    [][ ( /\ phase = "down" /\ phase' = "up"
          /\ req.route \in {"update", "delete", "activate", "deactivate"}
          /\ req.route = "update" => RequestValid(req.name)
          /\ req.id \notin DOMAIN store ) =>
            handed' = Raised("ExampleServiceException", "not_found") ]_vars

\* C17: begin_transaction_async is never invoked on the coordinator while a
\* transaction begun by another request is still active.
C17_OneActiveTransaction ==
    [][ \A r \in ConcRequests :
          (conc[r].pc = "start" /\ conc'[r].pc # "start") => uowState = "IDLE" ]_vars

\* C18: of two requests that both loaded the same entity and then both call
\* update_async, the second does not overwrite the first: an update that
\* succeeds finds the entity stored as the writer read it.
C18_StaleWriteRejected ==
    [][ \A r \in ConcRequests :
          (conc[r].pc = "loaded" /\ conc'[r].pc = "updated") =>
              to_model_from_write_entity(store[conc[r].id]) = conc[r].model ]_vars

\* C19: every persisted mutation of a stored entity increases its version,
\* and the stored version never decreases.
C19_VersionIncreases ==
    [][ \A id \in (DOMAIN store) \cap (DOMAIN store') :
          /\ store'[id].version >= store[id].version
          /\ store'[id] # store[id] => store'[id].version > store[id].version ]_vars

\* C20: publish_async invokes every handler subscribed to the topic, in the
\* order of subscription, also when some handler fails, and does not raise.
C20_HandlerFailureIsolated ==
    [][ (trace' # trace /\ trace'[1] = "bus.publish") =>
          LET handlers == subscribers[trace'[2]]
          IN  /\ Len(received') = Len(handlers)
              /\ \A k \in 1..Len(handlers) :
                    /\ received'[k].handler = handlers[k]
                    /\ received'[k].topic = trace'[2]
              /\ outcome'.kind # "exception" ]_vars

C20_Witness ==
    /\ Len(trace) >= 2 /\ trace[1] = "bus.publish"
    /\ Len(received) >= 2
    /\ received[1].handler \in FailingHandlers
    /\ received[2].handler \notin FailingHandlers
    /\ outcome.kind # "exception"

\* topic of the event the service operation of a route publishes
RouteTopic(route) ==
    CASE route = "create" -> "example.created"
      [] route = "update" -> "example.updated"
      [] OTHER            -> "example.deleted"

RuleStatus(code_str) ==
    LET rules == << <<NOT_FOUND, 404>>, <<CONFLICT, 409>>, <<ALREADY_EXISTS, 409>>,
                    <<VALIDATION, 400>>, <<UNAUTHORIZED, 401>>, <<FORBIDDEN, 403>> >>
        hits  == {k \in 1..Len(rules) : Contains(code_str, rules[k][1])}
    IN  IF hits = {} THEN 500
        ELSE rules[CHOOSE k \in hits : \A j \in hits : k <= j][2]

\* C22: _map_error_code_to_status returns, for every code, exactly one of
\* 400, 401, 403, 404, 409, 500: 404 when the upper-cased code contains
\* NOT_FOUND, 409 for CONFLICT or ALREADY_EXISTS, 400 for VALIDATION, 401
\* for UNAUTHORIZED, 403 for FORBIDDEN, and 500 when it contains none.
C22_ErrorCodeMappingTotal ==
    call.op = "_map_error_code_to_status" =>
        LET code_str == upper(call.args[1])
        IN  /\ call.result \in {400, 401, 403, 404, 409, 500}
            /\ call.result = RuleStatus(code_str)
            /\ call.result = 500 <=>
                  \A kw \in {NOT_FOUND, CONFLICT, ALREADY_EXISTS, VALIDATION,
                             UNAUTHORIZED, FORBIDDEN} : ~Contains(code_str, kw)

\* the lower-case value of ExampleErrorCode.NOT_FOUND has been mapped to 404
C22_Witness ==
    /\ call.op = "_map_error_code_to_status"
    /\ call.args[1] = <<"n", "o", "t", "_", "f", "o", "u", "n", "d">>
    /\ call.result = 404


\* C23: an exception that is not a ServiceException and reaches
\* ErrorHandlingMiddleware is answered with code INTERNAL_ERROR, the fixed
\* message and no details, whatever the exception is: the responses to two
\* different unexpected exceptions are equal in code, message and details.
C23_UnexpectedErrorsAreGeneric ==
    [][ (/\ phase = "up" /\ depth >= 1 /\ pipeline[depth] = "error"
         /\ depth' = depth - 1
         /\ outcome.kind = "exception"
         /\ outcome.exc \notin ServiceExceptions)
        => /\ outcome'.kind = "response"
           /\ outcome'.code = "INTERNAL_ERROR"
           /\ outcome'.message = "An unexpected error occurred"
           /\ outcome'.details = NoDetails ]_vars

\* the stage has answered a RuntimeError of the handler
C23_Witness ==
    /\ pipeline = ErrorPipeline /\ phase = "done"
    /\ handed.kind = "exception" /\ handed.exc = "RuntimeError"
    /\ handed.message # "An unexpected error occurred"
    /\ outcome.code = "INTERNAL_ERROR"


\* C24: list_by_filter_async(skip, take) returns at most take elements,
\* they are the stored entities from offset skip on, in the order of the
\* store, and nothing is returned when skip is at least the number of
\* stored entities; for all integers skip and take.
C24_ListIsPageOfStore ==
    call.op = "list_by_filter_async" =>
        LET skip   == call.args[1]
            take   == call.args[2]
            result == call.result
        IN  /\ Len(result) <= (IF take < 0 THEN 0 ELSE take)
            /\ \A i \in 1..Len(result) :
                  /\ skip + i \in 1..Len(readStore)
                  /\ result[i] = readStore[skip + i]
            /\ skip >= Len(readStore) => result = <<>>


\* the read store holds no entity with this id
Unread(id) == \A i \in 1..Len(readStore) : readStore[i].id # id

\* C25: find_by_id_async for an id with no read entity returns the absent
\* value and does not raise; get_example_async turns that absent value into
\* ExampleServiceException with code NOT_FOUND.
C25_AbsentReadIsNoneThenNotFound ==
    /\ (call.op = "find_by_id_async" /\ Unread(call.args[1])) =>
          /\ DOMAIN call.result = {"found", "entity"}
          /\ ~call.result.found
    /\ (call.op = "get_example_async" /\ Unread(call.args[1])) =>
          /\ call.result.kind = "exception"
          /\ call.result.exc = "ExampleServiceException"
          /\ call.result.code = "not_found"

\* get_example_async has been called with an id the read store lacks while
\* the read store holds other entities
C25_Witness ==
    /\ call.op = "get_example_async"
    /\ Unread(call.args[1])
    /\ Len(readStore) > 0
    /\ call.result.code = "not_found"


\* C26: find_by_id_for_command_async, update_async and delete_async called
\* with an id the command store lacks fail with the not-found error and
\* leave the command store as it was.
C26_AbsentIdFailsStoreUnchanged ==
    [][ ((RepoFindCall \/ RepoUpdateCall \/ RepoDeleteCall)
         /\ call'.args[1] \notin DOMAIN store)
        => (call'.result = FALSE /\ store' = store) ]_vars

\* update_async has failed for an id the store lacks while the store holds
\* another entity
C26_Witness ==
    /\ call.op = "update_async"
    /\ call.result = FALSE
    /\ call.args[1] \notin DOMAIN store
    /\ store # EmptyStore


\* C27: a command-repository call made while the coordinator is IDLE is
\* rejected and leaves the command store unchanged.
C27_IdleRepositoryCallRejected ==
    [][ (uowState = "IDLE" /\ (RepoSave \/ RepoUpdate \/ RepoDelete))
        => store' = store ]_vars


ServiceOps == {"create_example_async", "update_example_async",
               "activate_example_async", "deactivate_example_async"}

C29_EventsCarryCorrelationId ==
    \A i \in 1..Len(received) :
        received[i].event.correlation_id = CurrentCorrelation


\* C30: a write entity mapped to a model and back is equal to itself in
\* id, name, description, owner_id, is_active, created_at and updated_at;
\* only version may differ.
C30_MapperRoundTrip ==
    call.op = "to_write_entity" =>
        LET e == call.args[1]
            r == call.result
        IN  /\ DOMAIN r = DOMAIN e
            /\ \A f \in DOMAIN e \ {"version"} : r[f] = e[f]

\* an entity with version 1 and two different instants has made the round
\* trip; its version came back as 0
C30_Witness ==
    /\ call.op = "to_write_entity"
    /\ call.args[1].version = 1
    /\ call.args[1].created_at # call.args[1].updated_at
    /\ call.result.version = 0


\* the keys of the replacement fields of the template of a code
FieldsOf(code) ==
    {MessageTemplates[code][i].v :
        i \in {j \in 1..Len(MessageTemplates[code]) :
                 MessageTemplates[code][j].kind = "field"}}

C32_PublishReachesTopicSubscribersOnly ==
    [][ /\ (trace' # trace /\ trace'[1] = "bus.publish") =>
             LET topic == trace'[2]
             IN  /\ Len(received') = Len(subscribers[topic])
                 /\ \A i \in 1..Len(received') :
                       /\ received'[i].handler = subscribers[topic][i]
                       /\ received'[i].topic = topic
                       /\ received'[i].event = received'[1].event
                 /\ subscribers[topic] = <<>> =>
                       (received' = <<>> /\ outcome'.kind # "exception")
        /\ subscribers' # subscribers => received' = received ]_vars

\* an event has been delivered to the one handler of its topic while another
\* topic has a handler of its own, and a handler has been subscribed to the
\* topic afterwards
C32_Witness ==
    /\ Len(trace) >= 2 /\ trace[1] = "bus.publish"
    /\ Len(received) = 1
    /\ Len(subscribers[trace[2]]) = 2
    /\ \E t \in Topics \ {trace[2]} : Len(subscribers[t]) = 1


\* C33: create, update and delete publish their event only after the
\* repository write of the same call has returned without error; when the
\* write raises, publish_async is not invoked by that call.
C33_PublishOnlyAfterSuccessfulWrite ==
    [][ /\ call'.op \in {"create_example_async", "update_example_async",
                         "delete_example_async"} =>
              LET calls == call'.result.calls
              IN  \A i \in 1..Len(calls) :
                      calls[i] = "bus.publish" =>
                          /\ i > 1
                          /\ calls[i - 1] \in WriteCalls
                          /\ \A j \in 1..(i - 1) : calls[j] # "bus.publish"
        /\ (/\ conc["r1"].pc = "loaded" /\ conc'["r1"].pc = "none"
            /\ conc["r1"].id \notin DOMAIN store) =>
              /\ call'.result.raised
              /\ \A i \in 1..Len(call'.result.calls) :
                    call'.result.calls[i] # "bus.publish"
              /\ received' = received ]_vars

\* the entity was deleted while update_example_async was suspended after
\* its find: update_async raised and nothing was published
C33_Witness ==
    /\ call.op = "update_example_async"
    /\ call.result.raised
    /\ call.result.calls = <<"repo.find", "repo.update">>


\* the calls a request in flight has made so far contain the label
HasCalled(r, label) == \E i \in 1..Len(conc[r].calls) : conc[r].calls[i] = label

\* C34: when begin_transaction_async itself raises for a mutating request,
\* UnitOfWorkMiddleware invokes neither rollback nor commit and does not
\* invoke the next stage.
C34_NoTerminalCallWithoutBegin ==
    \A r \in ConcRequests :
        (conc[r].pc = "done" /\ ~HasCalled(r, "handler.enter")) =>
            /\ ~HasCalled(r, "uow.rollback")
            /\ ~HasCalled(r, "uow.commit")

\* number of commit and rollback invocations made for the request
TerminalCalls(r) ==
    Cardinality({i \in 1..Len(conc[r].calls) :
                    conc[r].calls[i] \in {"uow.commit", "uow.rollback"}})

\* C35: for a mutating request on which begin succeeded, exactly one of
\* commit and rollback is invoked, exactly once, also when the invoked
\* operation itself raises.
C35_OneTerminalCall ==
    \A r \in ConcRequests :
        (conc[r].pc = "done" /\ HasCalled(r, "handler.enter")) => TerminalCalls(r) = 1


\* C36: ErrorHandlingMiddleware.__call__ never raises: a response of the
\* next stage is returned as it is, and every exception of the next stage,
\* whatever its class, is answered with an ErrorResponseDto.
C36_ErrorHandlingNeverRaises ==
    [][ (phase = "up" /\ depth >= 1 /\ pipeline[depth] = "error" /\ depth' = depth - 1)
        => /\ outcome'.kind = "response"
           /\ outcome.kind = "response" => outcome' = outcome
           /\ outcome.kind = "exception" => outcome'.body = "ErrorResponseDto" ]_vars


\* the coordinator operations among the entries of a call sequence
CoordinatorCalls(calls) ==
    SelectSeq(calls, LAMBDA c : c \in {"uow.begin", "uow.commit", "uow.rollback"})

\* what the other UnitOfWorkMiddleware does with the outcome handed up,
\* given that it has begun the transaction as the running one has
OtherVariantAfter ==
    IF pipeline = DddUowPipeline
    THEN rest_uow_after(req, "ACTIVE", handed)
    ELSE ddd_uow_after(req, "ACTIVE", handed)

\* C37: on a mutating request the ddd and the rest-ddd UnitOfWorkMiddleware
\* are equivalent: for the same behaviour of the next stage (a response with
\* or without status_code, or an exception) the run of the one invokes the
\* coordinator operations the other invokes and ends in the same outcome.
C37_UowVariantsEquivalent ==
    ( /\ pipeline \in {DddUowPipeline, RestUowPipeline}
      /\ IsMutating(req.method) /\ phase = "done" /\ handed # NoOutcome ) =>
        /\ CoordinatorCalls(trace) =
               <<"uow.begin">> \o CoordinatorCalls(OtherVariantAfter.calls)
        /\ outcome = OtherVariantAfter.outcome


\* C38: no ExampleService operation modifies the query store: through every
\* sequence of create, update, delete, activate, deactivate, get and list
\* requests the content of ExampleQueryRepository stays what it was, and
\* get_example_async and list_examples_async leave the command store
\* unchanged as well.
C38_ReadsChangeNoStore ==
    [][ /\ readStore' = readStore
        /\ ( /\ phase = "down" /\ phase' = "up" /\ depth = Len(pipeline)
             /\ req.route \in {"get", "list"} ) => store' = store ]_vars

C38_Witness ==
    /\ phase = "done"
    /\ pipeline = MainPipeline
    /\ req.route = "list"
    /\ outcome.kind = "response"
    /\ Has("query.list")
    /\ store # EmptyStore
    /\ readStore # <<>>


\* C39: ExampleModel.update_details is atomic on failure: whenever it raises
\* ValueError (blank name, or a name longer than 100 characters) the name,
\* the description and updated_at of the model are what they were before
\* the call.
C39_UpdateDetailsAtomicOnFailure ==
    (call.op = "update_details" /\ ~call.result.ok) =>
        LET before == call.args[1]
            after  == call.result.model
        IN  /\ after.name = before.name
            /\ after.description = before.description
            /\ after.updated_at = before.updated_at

====
